---- MODULE Spec2Model ----
(***************************************************************************)
(* Token lifecycle of the Havona SDK authentication providers              *)
(* (havona_sdk/auth.py): the Auth0 provider with its single-slot           *)
(* _TokenCache, the identity endpoint it talks to, and the StaticToken     *)
(* provider.  Time is the monotonic clock in whole seconds.  A token is    *)
(* named by the number of the identity request that produced it.           *)
(* On top of the providers: HavonaClient (havona_sdk/client.py), its       *)
(* transport _request/_raise_for_status, graphql and write, and the        *)
(* resource facades of havona_sdk/resources.                               *)
(***************************************************************************)
EXTENDS Integers, FiniteSets, Sequences, TLC

\* ------------------------------------------------------------------ bounds
\* Identity-endpoint requests issued over one behaviour.
MaxFetches == 3
\* Advances of the monotonic clock over one behaviour.
MaxTicks == 3
\* Calls of StaticToken.get_token over one behaviour.
MaxStaticCalls == 3
\* Platform HTTP requests issued over one behaviour.
MaxRequests == 2

\* Threads that may call get_token on the one Auth0 provider.
Threads == {1, 2}
\* expires_in values the identity endpoint may declare.
TTLs == {30, 60, 120}
\* Token strings a StaticToken may be built with.
StaticTokens == {900, 901, 902}

\* ------------------------------------------------------- program constants
\* auth.py:26  "time.monotonic() + expires_in - 60"
REFRESH_SKEW == 60
\* auth.py:23 and auth.py:116  default expires_in
DEFAULT_EXPIRES_IN == 86400

\* ------------------------------------------------------------ Python values
NoneVal == [tag |-> "None"]
PyNone == "<None>"
\* Truthiness of an Optional[str] (auth.py:124, 133): None and "" are falsy.
Truthy(s) == s # PyNone /\ s # ""

\* dict.get(key, default) on a JSON object (auth.py:116).
dict_get(d, key, default) == IF key \in DOMAIN d THEN d[key] ELSE default

\* An exception raised to the caller.
Raise(type, why, status) == [raise |-> type, why |-> why, status |-> status]
Return(v) == [ret |-> v]
IsRaise(r) == "raise" \in DOMAIN r
IsReturn(r) == "ret" \in DOMAIN r

VARIABLES
    now,            \* time.monotonic(), whole seconds
    ticks,          \* clock advances so far (bounded by MaxTicks)
    username,       \* Auth0._username
    password,       \* Auth0._password
    client_secret,  \* Auth0._client_secret
    cache,          \* Auth0._cache: NoneVal or a _TokenCache
    netReqs,        \* identity-endpoint POSTs issued so far
    pc,             \* per thread: position inside get_token
    force,          \* per thread: force_refresh of the running call
    sent,           \* per thread: JSON body of the POST in flight
    data,           \* per thread: outcome of _fetch_token
    result,         \* per thread: outcome of get_token
    staticToken,    \* StaticToken._token
    staticRet,      \* outcome of the last StaticToken.get_token call
    staticCalls,    \* StaticToken.get_token calls so far
    \* --- history (not program state) ---
    cacheMeta,      \* when the cache entry was built and from which response
    chkCache,       \* per thread: Auth0._cache as line 110 saw it
    chkMeta,        \* per thread: cacheMeta as line 110 saw it
    chkTime,        \* per thread: the clock when line 110 ran
    nfetch,         \* per thread: _fetch_token invocations of the running call
    nreq,           \* per thread: identity POSTs of the running call
    resp,           \* per thread: the identity endpoint's answer to the call
    staticInit,     \* the string the StaticToken was constructed with
    \* --- HavonaClient ---
    provider,       \* HavonaClient._token_provider: "auth0" or "static"
    cpc,            \* position of the caller inside a facade operation
    cop,            \* the facade operation in progress, with its arguments
    creq,           \* arguments of the requests.request call of the operation
    cresp,          \* what requests.request came back with
    cresult,        \* outcome of the facade operation
    platReqs,       \* platform HTTP requests issued so far
    cur,            \* which of two HavonaClient objects the caller is using
    other,          \* the fields of the HavonaClient object not in use
    \* --- history (not program state) ---
    clog,           \* get_token calls, _request calls and HTTP calls of the operation
    prev            \* token and cache of the previous platform request, if answered 401

vars == <<now, ticks, username, password, client_secret, cache, netReqs, pc,
          force, sent, data, result, staticToken, staticRet, staticCalls,
          cacheMeta, chkCache, chkMeta, chkTime, nfetch, nreq, resp, staticInit,
          provider, cpc, cop, creq, cresp, cresult, platReqs, cur, other,
          clog, prev>>

authVars == <<username, password, client_secret>>
staticVars == <<staticToken, staticRet, staticCalls, staticInit>>
clockVars == <<now, ticks>>
clientVars == <<provider, cpc, cop, creq, cresp, cresult, platReqs, cur, other,
                clog, prev>>

\* ------------------------------------------------------------- _TokenCache
\* Variant of TokenCache that forgets the refresh skew.
TokenCache_no_skew(access_token, expires_in, t) ==
    [access_token |-> access_token,
     expires_at   |-> t + expires_in]

\* Variant of TokenCache stamped with the clock's origin, not the fetch time.
TokenCache_unstamped(access_token, expires_in, t) ==
    [access_token |-> access_token,
     expires_at   |-> expires_in - REFRESH_SKEW]

\* _TokenCache.__init__ (auth.py:23-26), built at clock value t.
TokenCache(access_token, expires_in, t) ==
    [access_token |-> access_token,
     expires_at   |-> t + expires_in - REFRESH_SKEW]

\* Variant of is_valid that accepts the token for 30 s past the skewed expiry.
is_valid_late(c, t) == t < c.expires_at + 30

\* Variant of is_valid that still accepts the token at the expiry instant.
is_valid_inclusive(c, t) == t <= c.expires_at

\* _TokenCache.is_valid (auth.py:28-29) at clock value t.
is_valid(c, t) == t < c.expires_at

\* ------------------------------------------------------- identity endpoint
\* requests.Response.ok (auth.py:151): false exactly for 4xx and 5xx.
ok(status) == ~(400 <= status /\ status < 600)

ErrStatuses == {401, 500}

\* Bodies an answer may carry for the request numbered n.
Bodies(n) ==
    {[kind |-> "object", obj |-> [access_token |-> n, expires_in |-> ttl]] : ttl \in TTLs}
    \cup {[kind |-> "object", obj |-> [access_token |-> n]],
          [kind |-> "object", obj |-> [error |-> "invalid_grant"]],
          [kind |-> "not_json"],
          [kind |-> "null"]}

\* What requests.post may come back with for the request numbered n:
\* a RequestException (connection failure, timeout after 10 s) or a response.
Responses(n) ==
    {[kind |-> "exception", exc |-> e] : e \in {"ConnectionError", "Timeout"}}
    \cup {[kind |-> "response", status |-> 200, body |-> b] : b \in Bodies(n)}
    \cup {[kind |-> "response", status |-> 304, body |-> b] :
              b \in {[kind |-> "object", obj |-> [access_token |-> n]],
                     [kind |-> "not_json"]}}
    \cup {[kind |-> "response", status |-> s, body |-> [kind |-> "not_json"]] :
              s \in ErrStatuses}

\* Auth0._client_id and Auth0._audience, as given to the constructor
\* (auth.py:66-67).
CLIENT_ID == "client-id"
AUDIENCE == "https://api.example.com"

\* Variant of Payload whose password grant leaves out the scope.
Payload_no_scope ==
    IF Truthy(username) /\ Truthy(password)
    THEN [grant_type |-> "password", client_id |-> CLIENT_ID,
          audience |-> AUDIENCE, username |-> username, password |-> password]
    ELSE IF Truthy(client_secret)
    THEN [grant_type |-> "client_credentials", client_id |-> CLIENT_ID,
          client_secret |-> client_secret, audience |-> AUDIENCE]
    ELSE NoneVal

\* The grant body _fetch_token builds (auth.py:124-144); NoneVal when the
\* provider has no usable credentials.
Payload ==
    IF Truthy(username) /\ Truthy(password)
    THEN [grant_type |-> "password", client_id |-> CLIENT_ID,
          audience |-> AUDIENCE, username |-> username,
          password |-> password, scope |-> "openid profile email"]
    ELSE IF Truthy(client_secret)
    THEN [grant_type |-> "client_credentials", client_id |-> CLIENT_ID,
          client_secret |-> client_secret, audience |-> AUDIENCE]
    ELSE NoneVal

\* _fetch_token after requests.post came back with r (auth.py:146-162).
fetch_result(r) ==
    IF r.kind = "exception"
    THEN Raise("AuthError", "request_failed", 0)
    ELSE IF ~ok(r.status)
    THEN Raise("AuthError", "token_request_failed", r.status)
    ELSE IF r.body.kind = "not_json"
    THEN Raise("JSONDecodeError", "resp_json", 0)
    ELSE IF r.body.kind = "null"
    THEN Raise("TypeError", "not_iterable", 0)
    ELSE IF "access_token" \notin DOMAIN r.body.obj
    THEN Raise("AuthError", "missing_access_token", 0)
    ELSE Return(r.body.obj)

\* ----------------------------------------------------------------- Init
\* Auth0 providers as the constructors build them (auth.py:56-106).
Configs ==
    {[u |-> "trader", p |-> "pw", s |-> PyNone],     \* from_password
     [u |-> "", p |-> "pw", s |-> PyNone],           \* from_password, empty username
     [u |-> PyNone, p |-> PyNone, s |-> "secret"],   \* from_client_credentials
     [u |-> PyNone, p |-> PyNone, s |-> PyNone]}     \* Auth0(domain, audience, client_id)

InitWith(configs, tokens) ==
    /\ now = 0
    /\ ticks = 0
    /\ \E c \in configs :
          /\ username = c.u
          /\ password = c.p
          /\ client_secret = c.s
    /\ cache = NoneVal
    /\ netReqs = 0
    /\ pc = [t \in Threads |-> "idle"]
    /\ force = [t \in Threads |-> FALSE]
    /\ sent = [t \in Threads |-> NoneVal]
    /\ data = [t \in Threads |-> NoneVal]
    /\ result = [t \in Threads |-> NoneVal]
    /\ staticToken \in tokens
    /\ staticInit = staticToken
    /\ staticRet = NoneVal
    /\ staticCalls = 0
    /\ cacheMeta = NoneVal
    /\ chkCache = [t \in Threads |-> NoneVal]
    /\ chkMeta = [t \in Threads |-> NoneVal]
    /\ chkTime = [t \in Threads |-> 0]
    /\ nfetch = [t \in Threads |-> 0]
    /\ nreq = [t \in Threads |-> 0]
    /\ resp = [t \in Threads |-> NoneVal]

\* HavonaClient objects as __init__ leaves them (client.py:68-83), with the
\* provider kind the factory chose (client.py:103, 128, 153).
CallerInit(kinds) ==
    /\ provider \in kinds
    /\ cpc = "idle"
    /\ cop = NoneVal
    /\ creq = NoneVal
    /\ cresp = NoneVal
    /\ cresult = NoneVal
    /\ platReqs = 0
    /\ clog = NoneVal
    /\ prev = NoneVal

\* One HavonaClient object.
ClientInit(kinds) ==
    /\ CallerInit(kinds)
    /\ cur = 1
    /\ other = NoneVal

\* Every Auth0 provider, beside one StaticToken.
Init == InitWith(Configs, {900}) /\ ClientInit({"auth0"})

\* Every StaticToken, beside every Auth0 provider.
InitStatic == InitWith(Configs, StaticTokens) /\ ClientInit({"static"})

\* ------------------------------------------------------- Auth0.get_token
\* Variant of cache_hit that lets a forced refresh reuse a valid token.
cache_hit_ignores_force(f) == cache # NoneVal /\ is_valid(cache, now)

\* The test of line 110.
cache_hit(f) == ~f /\ cache # NoneVal /\ is_valid(cache, now)

\* Variant of expires_in_of with a one-hour default.
expires_in_of_hour_default(d) == dict_get(d, "expires_in", 3600)

\* Variant of expires_in_of that never lets an entry live under two minutes.
expires_in_of_min_ttl(d) ==
    IF dict_get(d, "expires_in", DEFAULT_EXPIRES_IN) < 120
    THEN 120
    ELSE dict_get(d, "expires_in", DEFAULT_EXPIRES_IN)

\* Line 116: data.get("expires_in", 86400).
expires_in_of(d) == dict_get(d, "expires_in", DEFAULT_EXPIRES_IN)

\* Variant of propagate that answers a failed fetch with the cached token.
propagate_or_cached(err) ==
    IF cache # NoneVal THEN Return(cache.access_token) ELSE err

\* Line 113 has no try/except: what _fetch_token raises leaves get_token as is.
propagate(err) == err

\* Entry and the test of line 110; a hit goes to line 111, the rest to 113.
get_token_check(t, f) ==
    /\ pc[t] \in {"idle", "done"}
    /\ force' = [force EXCEPT ![t] = f]
    /\ pc' = [pc EXCEPT ![t] =
                IF cache_hit(f) THEN "hit" ELSE "fetch"]
    /\ sent' = [sent EXCEPT ![t] = NoneVal]
    /\ data' = [data EXCEPT ![t] = NoneVal]
    /\ result' = [result EXCEPT ![t] = NoneVal]
    /\ chkCache' = [chkCache EXCEPT ![t] = cache]
    /\ chkMeta' = [chkMeta EXCEPT ![t] = cacheMeta]
    /\ chkTime' = [chkTime EXCEPT ![t] = now]
    /\ nfetch' = [nfetch EXCEPT ![t] = 0]
    /\ nreq' = [nreq EXCEPT ![t] = 0]
    /\ resp' = [resp EXCEPT ![t] = NoneVal]
    /\ UNCHANGED <<clockVars, authVars, staticVars, cache, cacheMeta, netReqs>>

\* Line 111: return self._cache.access_token (reads the slot again).
get_token_return_cached(t) ==
    /\ pc[t] = "hit"
    /\ result' = [result EXCEPT ![t] = Return(cache.access_token)]
    /\ pc' = [pc EXCEPT ![t] = "done"]
    /\ UNCHANGED <<clockVars, authVars, staticVars, cache, cacheMeta, netReqs,
                   force, sent, data, chkCache, chkMeta, chkTime, nfetch, nreq, resp>>

\* _fetch_token up to requests.post (auth.py:120-147): build the grant body
\* and send it, or raise AuthError when no credentials are configured.
fetch_token_send(t) ==
    /\ pc[t] = "fetch"
    /\ nfetch' = [nfetch EXCEPT ![t] = @ + 1]
    /\ IF Payload = NoneVal
       THEN /\ data' = [data EXCEPT ![t] = Raise("AuthError", "no_credentials", 0)]
            /\ pc' = [pc EXCEPT ![t] = "fetched"]
            /\ UNCHANGED <<netReqs, nreq, sent>>
       ELSE /\ netReqs < MaxFetches
            /\ netReqs' = netReqs + 1
            /\ nreq' = [nreq EXCEPT ![t] = @ + 1]
            /\ sent' = [sent EXCEPT ![t] = [body |-> Payload, n |-> netReqs + 1]]
            /\ pc' = [pc EXCEPT ![t] = "post"]
            /\ UNCHANGED data
    /\ UNCHANGED <<clockVars, authVars, staticVars, cache, cacheMeta,
                   force, result, chkCache, chkMeta, chkTime, resp>>

\* requests.post comes back and _fetch_token finishes (auth.py:146-162).
fetch_token_response(t) ==
    /\ pc[t] = "post"
    /\ \E r \in Responses(sent[t].n) :
          /\ data' = [data EXCEPT ![t] = fetch_result(r)]
          /\ resp' = [resp EXCEPT ![t] = r]
    /\ pc' = [pc EXCEPT ![t] = "fetched"]
    /\ UNCHANGED <<clockVars, authVars, staticVars, cache, cacheMeta, netReqs,
                   force, sent, result, chkCache, chkMeta, chkTime, nfetch, nreq>>

\* Lines 113-117: an exception of _fetch_token leaves get_token; token data
\* is stored as a new _TokenCache stamped with the clock.
get_token_store(t) ==
    /\ pc[t] = "fetched"
    /\ IF IsRaise(data[t])
       THEN /\ result' = [result EXCEPT ![t] = propagate(data[t])]
            /\ pc' = [pc EXCEPT ![t] = "done"]
            /\ UNCHANGED <<cache, cacheMeta>>
       ELSE /\ cache' = TokenCache(data[t].ret.access_token,
                                   expires_in_of(data[t].ret),
                                   now)
            /\ cacheMeta' = [obtained_at |-> now,
                             declared |-> dict_get(data[t].ret, "expires_in", -1)]
            /\ pc' = [pc EXCEPT ![t] = "stored"]
            /\ UNCHANGED result
    /\ UNCHANGED <<clockVars, authVars, staticVars, netReqs,
                   force, sent, data, chkCache, chkMeta, chkTime, nfetch, nreq, resp>>

\* Line 118: return self._cache.access_token (reads the slot again).
get_token_return(t) ==
    /\ pc[t] = "stored"
    /\ result' = [result EXCEPT ![t] = Return(cache.access_token)]
    /\ pc' = [pc EXCEPT ![t] = "done"]
    /\ UNCHANGED <<clockVars, authVars, staticVars, cache, cacheMeta, netReqs,
                   force, sent, data, chkCache, chkMeta, chkTime, nfetch, nreq, resp>>

\* --------------------------------------------------- StaticToken.get_token
\* Variant of static_return that hands out another token on a forced refresh.
static_return_refreshed(f) == IF f THEN staticToken + 1 ELSE staticToken

\* Line 179: return self._token.
static_return(f) == staticToken

\* auth.py:178-179.
static_get_token(f) ==
    /\ staticCalls < MaxStaticCalls
    /\ staticRet' = [ret |-> static_return(f), force_refresh |-> f]
    /\ staticCalls' = staticCalls + 1
    /\ UNCHANGED <<clockVars, authVars, cache, cacheMeta, netReqs, pc, force, sent,
                   data, result, staticToken, staticInit, chkCache, chkMeta,
                   chkTime, nfetch, nreq, resp>>

\* ------------------------------------------------------------------ clock
\* Time passes: by one second, or up to just before, exactly at or just
\* after the expiry the cache entry carries.
TickTargets ==
    {now + 1} \cup
    (IF cache = NoneVal THEN {}
     ELSE {x \in {cache.expires_at - 1, cache.expires_at, cache.expires_at + 1} : x > now})

\* Variant of Tick with a background task that empties the slot once the
\* entry has expired.
Tick_evicting ==
    /\ ticks < MaxTicks
    /\ ticks' = ticks + 1
    /\ \E x \in TickTargets : now' = x
    /\ cache' = IF cache # NoneVal /\ ~is_valid(cache, now') THEN NoneVal ELSE cache
    /\ UNCHANGED <<authVars, staticVars, cacheMeta, netReqs, pc, force, sent,
                   data, result, chkCache, chkMeta, chkTime, nfetch, nreq, resp>>

Tick ==
    /\ ticks < MaxTicks
    /\ ticks' = ticks + 1
    /\ \E x \in TickTargets : now' = x
    /\ UNCHANGED <<authVars, staticVars, cache, cacheMeta, netReqs, pc, force, sent,
                   data, result, chkCache, chkMeta, chkTime, nfetch, nreq, resp>>

\* ------------------------------------------------------------ HavonaClient
\* client.py:199  resp.text[:500]
BODY_LIMIT == 500

\* Python dicts are functions from keys to values; {} is the empty function.
EmptyDict == [k \in {} |-> NoneVal]

\* {**a, **b}: the keys of both, b's value where both have the key.
dict_merge(a, b) ==
    [k \in DOMAIN a \cup DOMAIN b |-> IF k \in DOMAIN b THEN b[k] ELSE a[k]]

\* d.pop(key, None) as the resulting dict.
dict_pop(d, key) == [k \in DOMAIN d \ {key} |-> d[k]]

\* d.get(key): None for a missing key.
dict_get_none(d, key) == IF key \in DOMAIN d THEN d[key] ELSE NoneVal

\* JSON values that may be null, an object or an array carry their kind;
\* JSON null decodes to None.
JObj(d) == [tag |-> "dict", items |-> d]
JList(s) == [tag |-> "list", items |-> s]

\* Truthiness of None, a dict or a list: None, {} and [] are falsy.
truthy_json(v) ==
    /\ v.tag # "None"
    /\ v.tag = "dict" => DOMAIN v.items # {}
    /\ v.tag = "list" => Len(v.items) # 0

\* A text is known by its length in characters; text[:k] keeps the first k.
text_slice(len, k) == IF len <= k THEN len ELSE k

\* _headers after get_token returned token (client.py:160-164).
headers(token) ==
    ("Content-Type" :> "application/json")
        @@ ("Authorization" :> [scheme |-> "Bearer", token |-> token])

\* An SDK error raised for an HTTP response (exceptions.py:7-13).
RaiseHttp(type, message, status, body) ==
    [raise |-> type, why |-> message, status |-> status, response_body |-> body]

\* Variant of error_type that treats 403 like any other error status.
error_type_403_base(code) ==
    IF code = 401 THEN "AuthError"
    ELSE IF code = 404 THEN "NotFoundError"
    ELSE IF code \in {400, 422} THEN "ValidationError"
    ELSE "HavonaError"

\* Variant of error_type that treats 401 like any other error status.
error_type_401_base(code) ==
    IF code = 403 THEN "AuthError"
    ELSE IF code = 404 THEN "NotFoundError"
    ELSE IF code \in {400, 422} THEN "ValidationError"
    ELSE "HavonaError"

\* The exception class _raise_for_status picks for a status (client.py:202-210).
error_type(code) ==
    IF code \in {401, 403} THEN "AuthError"
    ELSE IF code = 404 THEN "NotFoundError"
    ELSE IF code \in {400, 422} THEN "ValidationError"
    ELSE "HavonaError"

\* The message that goes with it (client.py:203-210).
error_message(code) ==
    IF code = 401 THEN "Authentication failed"
    ELSE IF code = 403 THEN "Forbidden - insufficient permissions"
    ELSE IF code = 404 THEN "Resource not found"
    ELSE IF code \in {400, 422} THEN "Validation error"
    ELSE "Request failed"

\* _raise_for_status (client.py:194-210) on a response r.
raise_for_status(r) ==
    IF ok(r.status) THEN Return(r)
    ELSE RaiseHttp(error_type(r.status), error_message(r.status), r.status,
                   text_slice(r.text, BODY_LIMIT))

\* resp.json(): the decoded body, or JSONDecodeError for a body that is not JSON.
resp_json(r) ==
    IF r.body.kind = "not_json"
    THEN Raise("JSONDecodeError", "resp_json", 0)
    ELSE Return(r.body.obj)

\* --------------------------------------------------------- facade requests
\* _TRADE_FIELDS stands for the default field selection (trades.py:25-40).
\* A GraphQL query text is known by its root field and the value interpolated.
Query(root, arg) == [root |-> root, arg |-> arg]

\* graphql, lines 238-240: the POST body.
graphql_payload(query, variables) ==
    IF truthy_json(variables)
    THEN ("query" :> query) @@ ("variables" :> variables)
    ELSE ("query" :> query)

\* Variant of write_body in which type_name wins over a payload "type".
write_body_type_wins(type_name, payload) ==
    dict_merge(payload, "type" :> type_name)

\* write, line 272: data = {"type": type_name, **payload}.
write_body(type_name, payload) ==
    dict_merge("type" :> type_name, payload)

\* trades.py:190-204: the snake_case keys _normalise_fields renames.
FieldMap ==
    ("contract_no" :> "contractNo") @@ ("contract_type" :> "contractType")
    @@ ("seller_id" :> "sellerId") @@ ("buyer_id" :> "buyerId")
    @@ ("blockchain_status" :> "blockchainStatus")
    @@ ("payment_terms" :> "paymentTerms") @@ ("shipment_date" :> "shipmentDate")
    @@ ("origin_country" :> "originCountry")
    @@ ("destination_country" :> "destinationCountry")
    @@ ("unit_price" :> "unitPrice") @@ ("total_value" :> "totalValue")

\* _normalise_fields (trades.py:185-205) over kwargs given as the sequence of
\* its (key, value) items in insertion order: a later item that lands on the
\* same key replaces the earlier value.
RECURSIVE normalise_fields(_)
normalise_fields(kwargs) ==
    IF Len(kwargs) = 0 THEN EmptyDict
    ELSE LET last == kwargs[Len(kwargs)]
             rest == normalise_fields(SubSeq(kwargs, 1, Len(kwargs) - 1))
         IN dict_merge(rest, dict_get(FieldMap, last[1], last[1]) :> last[2])

\* Variant of dict_set that keeps the value a key already has.
dict_set_default(d, key, value) == dict_merge(key :> value, d)

\* payload["id"] = trade_id (trades.py:160).
dict_set(d, key, value) == dict_merge(d, key :> value)

\* The arguments a facade operation hands to requests.request through
\* _request (client.py:183-191): method, path, json, files, data.
Req(method, path, json, files, form) ==
    [method |-> method, path |-> path, json |-> json, files |-> files, data |-> form]

\* The upload of documents.py:90 and 127: {"file": (name, fh, content_type)}.
Upload(path, content_type) ==
    "file" :> [name |-> path, content_type |-> content_type]

\* _guess_content_type (documents.py:152-160); a path is its stem and its
\* suffix in lower case.
guess_content_type(path) ==
    IF path.suffix = ".pdf" THEN "application/pdf"
    ELSE IF path.suffix = ".xlsx"
    THEN "application/vnd.openxmlformats-officedocument.spreadsheetml.sheet"
    ELSE IF path.suffix = ".xls" THEN "application/vnd.ms-excel"
    ELSE IF path.suffix = ".csv" THEN "text/csv"
    ELSE "application/octet-stream"

\* Variant of extract_path in which extraction posts to the write endpoint.
extract_path_dynamic(c) == <<"/dynamic">>

\* The endpoint an extraction posts to (documents.py:94 and 130).
extract_path(c) ==
    IF c.name = "documents.extract_trade"
    THEN <<"/api/blotting/extract-pdf">>
    ELSE <<"/api/etr/extract">>

\* The _request call each facade operation makes.
request_of(c) ==
    CASE c.name = "graphql" ->
            Req("POST", <<"/graphql">>, graphql_payload(c.query, c.variables),
                NoneVal, NoneVal)
      [] c.name = "write" ->
            Req("POST", <<"/dynamic">>, write_body(c.type_name, c.payload),
                NoneVal, NoneVal)
      [] c.name = "trades.list" ->
            Req("POST", <<"/graphql">>,
                graphql_payload(Query("queryTradeContract", c.limit), NoneVal),
                NoneVal, NoneVal)
      [] c.name = "trades.get" ->
            Req("POST", <<"/graphql">>,
                graphql_payload(Query("getTradeContract", c.trade_id), NoneVal),
                NoneVal, NoneVal)
      [] c.name = "trades.create" ->
            Req("POST", <<"/dynamic">>,
                write_body("TradeContract", normalise_fields(c.kwargs)),
                NoneVal, NoneVal)
      [] c.name = "trades.update" ->
            Req("POST", <<"/dynamic">>,
                write_body("TradeContract",
                           dict_set(normalise_fields(c.kwargs), "id", c.trade_id)),
                NoneVal, NoneVal)
      [] c.name = "trades.assign_book" ->
            Req("PATCH", <<"/api/trades/", c.trade_id, "/book">>,
                "book" :> c.book, NoneVal, NoneVal)
      [] c.name = "agents.list" ->
            Req("GET", <<"/api/agents">>, NoneVal, NoneVal, NoneVal)
      [] c.name = "agents.get" ->
            Req("GET", <<"/api/agents/", c.agent_id>>, NoneVal, NoneVal, NoneVal)
      [] c.name = "agents.get_reputation" ->
            Req("GET", <<"/api/agents/", c.agent_id, "/reputation">>,
                NoneVal, NoneVal, NoneVal)
      [] c.name = "agents.status" ->
            Req("GET", <<"/api/agents/status">>, NoneVal, NoneVal, NoneVal)
      [] c.name \in {"blockchain.status", "blockchain.raw_status"} ->
            Req("GET", <<"/api/blockchain/status">>, NoneVal, NoneVal, NoneVal)
      [] c.name = "blockchain.get_persistence" ->
            Req("GET", <<"/api/blockchain/persistence/", c.record_id>>,
                NoneVal, NoneVal, NoneVal)
      [] c.name \in {"documents.extract", "etrs.extract"} ->
            Req("POST", extract_path(c), NoneVal,
                Upload(c.file_path, "application/pdf"),
                ("document_type" :> c.document_type) @@ ("mode" :> c.mode))
      [] c.name = "documents.extract_trade" ->
            Req("POST", extract_path(c), NoneVal,
                Upload(c.file_path, guess_content_type(c.file_path)), NoneVal)
      [] c.name \in {"documents.supported_types", "etrs.types"} ->
            Req("GET", <<"/api/etr/types">>, NoneVal, NoneVal, NoneVal)

\* Operations that open a local file before they call _request
\* (documents.py:89 and 125, etrs.py:86).
OpensFile(c) ==
    c.name \in {"documents.extract", "documents.extract_trade", "etrs.extract"}

\* ---------------------------------------------------------- facade results
\* GraphQLError(errors) (exceptions.py:34-40): the message list is built from
\* each error object's "message", the raw list is kept as .errors.
RaiseGraphQL(errors) ==
    [raise |-> "GraphQLError",
     why |-> [i \in DOMAIN errors.items |->
                 dict_get(errors.items[i], "message", "str(e)")],
     status |-> 0,
     errors |-> errors]

\* Variant of graphql_result that returns data whenever data is present.
graphql_result_data_first(envelope) ==
    IF "data" \in DOMAIN envelope
    THEN Return(envelope["data"])
    ELSE IF truthy_json(dict_get_none(envelope, "errors"))
    THEN RaiseGraphQL(envelope["errors"])
    ELSE Return(JObj(EmptyDict))

\* graphql, lines 243-248, on the decoded envelope.
graphql_result(envelope) ==
    IF truthy_json(dict_get_none(envelope, "errors"))
    THEN RaiseGraphQL(envelope["errors"])
    ELSE Return(dict_get(envelope, "data", JObj(EmptyDict)))

\* graphql after _request returned r (client.py:242-248).
graphql_finish(r) ==
    LET j == resp_json(r)
    IN IF IsRaise(j) THEN j ELSE graphql_result(j.ret)

\* write after _request returned r (client.py:274).
write_finish(r) == resp_json(r)

\* x or y on Optional[str] values.
py_or(x, y) == IF Truthy(x) THEN x ELSE y

\* Trade.from_dict (models.py:25-38) on a record of string fields.
Trade_from_dict(d) ==
    LET bp == dict_get(d, "blockchainPersistence", EmptyDict)
        known == {"id", "contractNo", "status", "contractType", "blockchainPersistence"}
    IN [id |-> dict_get(d, "id", ""),
        contract_no |-> dict_get(d, "contractNo", ""),
        status |-> dict_get(d, "status", ""),
        contract_type |-> dict_get(d, "contractType", PyNone),
        blockchain_status |-> py_or(dict_get(bp, "status", PyNone),
                                    dict_get(d, "blockchain_status", PyNone)),
        tx_hash |-> py_or(dict_get(bp, "txHash", PyNone),
                          dict_get(d, "tx_hash", PyNone)),
        block_number |-> py_or(dict_get(bp, "blockNumber", PyNone),
                               dict_get(d, "block_number", PyNone)),
        extra |-> [k \in DOMAIN d \ known |-> d[k]]]

\* Variant of trades_get_result that answers a missing record with an
\* empty Trade.
trades_get_result_placeholder(trade_id, d) ==
    LET raw == dict_get_none(d.items, "getTradeContract")
    IN IF raw.tag = "None"
       THEN Return(Trade_from_dict(EmptyDict))
       ELSE Return(Trade_from_dict(raw.items))

\* trades.get, lines 107-110, on what graphql returned.
trades_get_result(trade_id, d) ==
    LET raw == dict_get_none(d.items, "getTradeContract")
    IN IF raw.tag = "None"
       THEN Raise("NotFoundError", <<"TradeContract", trade_id, "not found">>, 0)
       ELSE Return(Trade_from_dict(raw.items))

\* trades.list, lines 78-79: data.get("queryTradeContract") or [].
trades_list_result(d) ==
    LET raw == dict_get_none(d.items, "queryTradeContract")
        rows == IF truthy_json(raw) THEN raw.items ELSE << >>
    IN Return([i \in DOMAIN rows |-> Trade_from_dict(rows[i])])

\* A response model built by from_dict in models.py from the decoded body.
Parsed(model, j) == IF IsRaise(j) THEN j ELSE Return([model |-> model, of |-> j.ret])

\* What a facade operation does with the response _request returned.
finish(c, r) ==
    CASE c.name = "graphql" -> graphql_finish(r)
      [] c.name \in {"write", "trades.update"} -> write_finish(r)
      [] c.name = "trades.list" ->
            LET g == graphql_finish(r)
            IN IF IsRaise(g) THEN g ELSE trades_list_result(g.ret)
      [] c.name = "trades.get" ->
            LET g == graphql_finish(r)
            IN IF IsRaise(g) THEN g ELSE trades_get_result(c.trade_id, g.ret)
      [] c.name = "trades.create" ->
            LET w == write_finish(r)
            IN IF IsRaise(w) THEN w ELSE Return(Trade_from_dict(w.ret))
      [] c.name \in {"trades.assign_book", "agents.status", "blockchain.raw_status"} ->
            resp_json(r)
      [] c.name \in {"agents.list", "agents.get"} -> Parsed("Agent", resp_json(r))
      [] c.name = "agents.get_reputation" -> Parsed("AgentReputation", resp_json(r))
      [] c.name = "blockchain.status" -> Parsed("BlockchainStatus", resp_json(r))
      [] c.name = "blockchain.get_persistence" ->
            Parsed("BlockchainPersistence", resp_json(r))
      [] c.name \in {"documents.extract", "documents.extract_trade", "etrs.extract"} ->
            Parsed("ExtractionResult", resp_json(r))
      [] c.name \in {"documents.supported_types", "etrs.types"} ->
            Parsed("ETRType", resp_json(r))

\* _request after requests.request came back with r (client.py:183-192):
\* a RequestException leaves _request as it is, a response goes through
\* _raise_for_status and then to the operation.
request_outcome(c, r) ==
    IF r.kind = "exception"
    THEN Raise(r.exc, "requests_request", 0)
    ELSE LET s == raise_for_status(r)
         IN IF IsRaise(s) THEN s ELSE finish(c, s.ret)

\* ------------------------------------------------- HavonaClient._request
\* Everything that belongs to the token providers and the clock.
providerVars == <<now, ticks, username, password, client_secret, cache, netReqs,
                  pc, force, sent, data, result, staticToken, staticRet,
                  staticCalls, cacheMeta, chkCache, chkMeta, chkTime, nfetch,
                  nreq, resp, staticInit>>

\* Variant of headers_force_refresh in which _headers forces a refresh.
headers_force_refresh_on == TRUE

\* Line 161: self._token_provider.get_token() leaves force_refresh at its
\* default (auth.py:108, 178).
headers_force_refresh == FALSE

\* Variant of request_headers that keeps Content-Type on multipart requests.
request_headers_keep_content_type(token, files) == headers(token)

\* Lines 179-181: the headers _request sends.
request_headers(token, files) ==
    IF files # NoneVal
    THEN dict_pop(headers(token), "Content-Type")
    ELSE headers(token)

\* Variant of token_outcome in which _headers swallows what get_token
\* raised and goes on with an empty bearer token.
token_outcome_swallowed ==
    IF provider = "static" THEN Return(staticRet.ret)
    ELSE IF IsRaise(result[1]) THEN Return(0) ELSE result[1]

\* What get_token gave the _headers call that is waiting for it.
token_outcome ==
    IF provider = "static" THEN Return(staticRet.ret) ELSE result[1]

\* A facade operation is called.  Operations with an upload open the file
\* first and leave with the OSError of open() when that fails; all others
\* enter _request, whose first step is _headers and its get_token call.
facade_call(c) ==
    /\ cpc \in {"idle", "done"}
    /\ cop' = c
    /\ creq' = NoneVal
    /\ cresp' = NoneVal
    /\ IF OpensFile(c) /\ ~c.readable
       THEN /\ cresult' = Raise("OSError", "open", 0)
            /\ cpc' = "done"
            /\ clog' = [requests |-> 0, get_token |-> 0, forces |-> {}, http |-> 0,
                        transport |-> "none", sendCache |-> NoneVal, sendNetReqs |-> 0,
                        static_before |-> staticCalls, plat_before |-> platReqs]
            /\ UNCHANGED providerVars
       ELSE /\ cresult' = NoneVal
            /\ cpc' = "token"
            /\ clog' = [requests |-> 1, get_token |-> 1,
                        forces |-> {headers_force_refresh}, http |-> 0,
                        transport |-> "none", sendCache |-> NoneVal, sendNetReqs |-> 0,
                        static_before |-> staticCalls, plat_before |-> platReqs]
            /\ IF provider = "static"
               THEN static_get_token(headers_force_refresh)
               ELSE get_token_check(1, headers_force_refresh)
    /\ UNCHANGED <<provider, platReqs, prev, cur, other>>

\* get_token is back: what it raised leaves _headers and _request and the
\* operation; with a token, _request builds the headers and calls
\* requests.request once (client.py:179-191).
request_send ==
    /\ cpc = "token"
    /\ provider = "auth0" => pc[1] = "done"
    /\ IF IsRaise(token_outcome)
       THEN /\ cresult' = token_outcome
            /\ cpc' = "done"
            /\ clog' = [clog EXCEPT !.transport = "get_token_raised"]
            /\ UNCHANGED <<creq, platReqs>>
       ELSE /\ platReqs < MaxRequests
            /\ platReqs' = platReqs + 1
            /\ creq' = LET q == request_of(cop)
                       IN [method |-> q.method, path |-> q.path,
                           headers |-> request_headers(token_outcome.ret, q.files),
                           json |-> q.json, files |-> q.files, data |-> q.data,
                           n |-> platReqs + 1]
            /\ cpc' = "http"
            /\ clog' = [clog EXCEPT !.http = @ + 1, !.sendCache = cache,
                                    !.sendNetReqs = netReqs]
            /\ UNCHANGED cresult
    /\ UNCHANGED <<providerVars, provider, cop, cresp, prev, cur, other>>

\* How _request itself ended: the class it raised, or "returned".
transport_of(r) ==
    IF r.kind = "exception" THEN r.exc
    ELSE IF IsRaise(raise_for_status(r)) THEN raise_for_status(r).raise
    ELSE "returned"

\* requests.request comes back with r; _raise_for_status and the rest of
\* the operation run (client.py:192 and the operation's own lines).
http_response(r) ==
    /\ cpc = "http"
    /\ cresp' = r
    /\ cresult' = request_outcome(cop, r)
    /\ cpc' = "done"
    /\ clog' = [clog EXCEPT !.transport = transport_of(r)]
    /\ prev' = IF r.kind = "response" /\ r.status = 401
               THEN [status |-> 401, token |-> creq.headers["Authorization"].token,
                     cache |-> cache]
               ELSE NoneVal
    /\ UNCHANGED <<providerVars, provider, cop, creq, platReqs, cur, other>>

\* --------------------------------------------------------------- the inputs
\* Records the platform may hold.
TradeRecords ==
    {[id |-> "t1", contractNo |-> "TC-1", status |-> "DRAFT"],
     [id |-> "t1"]}

\* Payloads a caller may hand to write: without and with an "id" key, with
\* a "type" key of its own, and the empty payload.
WritePayloads ==
    {[contractNo |-> "TC-1"],
     [id |-> "t1", status |-> "ACTIVE"],
     [type |-> "Invoice", contractNo |-> "TC-1"],
     EmptyDict}

\* Keyword arguments of trades.create and trades.update, in call order.
TradeKwargs ==
    {<< <<"contract_no", "TC-1">>, <<"status", "DRAFT">> >>,
     << <<"contractNo", "TC-1">>, <<"contract_no", "TC-2">> >>,
     << <<"id", "t7">>, <<"seller_id", "m1">> >>,
     << >>}

\* Local files: one that opens and one that does not.
Files ==
    {[file_path |-> [stem |-> "invoice", suffix |-> ".pdf"], readable |-> TRUE],
     [file_path |-> [stem |-> "missing", suffix |-> ".csv"], readable |-> FALSE]}

\* Every facade operation with the arguments tried.
FacadeCalls ==
    {[name |-> "graphql", query |-> Query("q", "x"), variables |-> v] :
        v \in {NoneVal, JObj(EmptyDict), JObj([id |-> "t1"])}}
    \cup {[name |-> "write", type_name |-> "TradeContract", payload |-> p] :
             p \in WritePayloads}
    \cup {[name |-> "trades.list", limit |-> 100]}
    \cup {[name |-> "trades.get", trade_id |-> "t1"]}
    \cup {[name |-> "trades.create", kwargs |-> k] : k \in TradeKwargs}
    \cup {[name |-> "trades.update", trade_id |-> "t1", kwargs |-> k] : k \in TradeKwargs}
    \cup {[name |-> "trades.assign_book", trade_id |-> "t1", book |-> "FX_BOOK_A"]}
    \cup {[name |-> n] : n \in {"agents.list", "agents.status", "blockchain.status",
                                "blockchain.raw_status", "documents.supported_types",
                                "etrs.types"}}
    \cup {[name |-> n, agent_id |-> 7] : n \in {"agents.get", "agents.get_reputation"}}
    \cup {[name |-> "blockchain.get_persistence", record_id |-> "t1"]}
    \cup {[name |-> n, file_path |-> f.file_path, readable |-> f.readable,
           document_type |-> "COMMERCIAL_INVOICE", mode |-> "native"] :
             n \in {"documents.extract", "etrs.extract"}, f \in Files}
    \cup {[name |-> "documents.extract_trade", file_path |-> f.file_path,
           readable |-> f.readable] : f \in Files}

\* The operations tried against an Auth0-backed client: a JSON request and
\* an upload.
TransportCalls ==
    {[name |-> "agents.status"],
     [name |-> "documents.extract_trade",
      file_path |-> [stem |-> "invoice", suffix |-> ".pdf"], readable |-> TRUE]}

\* GraphQL error objects, with and without a message.
GraphQLErrors == <<[message |-> "boom"], [path |-> "q"]>>

\* A key the envelope does not carry.
Absent == [tag |-> "absent"]

\* A GraphQL envelope: the data and errors keys are present when given.
Envelope(d, e) ==
    (IF d.tag = "absent" THEN EmptyDict ELSE "data" :> d)
    @@ (IF e.tag = "absent" THEN EmptyDict ELSE "errors" :> e)

\* The data an envelope may carry for an operation: absent, without the
\* root field, with a null root field, or with what was asked for (and null
\* for a bare graphql call).
DataValues(c) ==
    IF c.name = "trades.get"
    THEN {Absent, JObj(EmptyDict), JObj("getTradeContract" :> NoneVal)}
         \cup {JObj("getTradeContract" :> JObj(r)) : r \in TradeRecords}
    ELSE IF c.name = "trades.list"
    THEN {Absent, JObj("queryTradeContract" :> NoneVal),
          JObj("queryTradeContract" :> JList(<<[id |-> "t1"], [id |-> "t2"]>>))}
    ELSE {Absent, NoneVal, JObj(EmptyDict), JObj("q" :> JObj([id |-> "t1"]))}

\* The errors an envelope may carry: absent, null, empty, one or two objects.
ErrorValues ==
    {Absent, NoneVal, JList(<< >>), JList(SubSeq(GraphQLErrors, 1, 1)),
     JList(GraphQLErrors)}

\* JSON objects a success response may carry for an operation.
OkObjects(c) ==
    IF c.name \in {"graphql", "trades.list", "trades.get"}
    THEN {Envelope(d, e) : d \in DataValues(c), e \in ErrorValues}
    ELSE IF c.name \in {"write", "trades.create", "trades.update"}
    THEN {[id |-> "t9", contractNo |-> "TC-1", status |-> "DRAFT"], EmptyDict}
    ELSE {[status |-> "ok"]}

\* Lengths of the response text tried around the 500-character limit.
TextLengths == {0, 500, 501}

\* What requests.request may come back with for operation c when the
\* platform answers with the statuses in S: a RequestException, a success
\* with a JSON object or an empty body, a 3xx without body, an error with a
\* text body.
PlatformResponses(c, S) ==
    {[kind |-> "exception", exc |-> "ConnectionError"]}
    \cup {[kind |-> "response", status |-> s, text |-> 40,
           body |-> [kind |-> "object", obj |-> o]] :
              s \in {x \in S : x = 200}, o \in OkObjects(c)}
    \cup {[kind |-> "response", status |-> s, text |-> 0,
           body |-> [kind |-> "not_json"]] :
              s \in {x \in S : ok(x) /\ x # 200}}
    \cup {[kind |-> "response", status |-> s, text |-> n,
           body |-> [kind |-> "not_json"]] :
              s \in {x \in S : ~ok(x)}, n \in TextLengths}
    \cup {[kind |-> "response", status |-> s, text |-> 40,
           body |-> [kind |-> "object",
                     obj |-> Envelope(Absent, JList(GraphQLErrors))]] :
              s \in {x \in S : x # 200
                                /\ c.name \in {"graphql", "trades.list",
                                                "trades.get"}}}

\* Statuses the platform answers with.
Statuses == {200, 204, 304, 400, 401, 403, 404, 409, 422, 500}
\* The statuses tried against an Auth0-backed client.
TransportStatuses == {200, 401}

\* ------------------------------------------------------ client specifications
\* A client built by from_token (client.py:140-153), every facade operation.
InitFacade == InitWith({[u |-> PyNone, p |-> PyNone, s |-> PyNone]}, {900})
              /\ ClientInit({"static"})

NextFacade ==
    \/ \E c \in FacadeCalls : facade_call(c)
    \/ request_send
    \/ cpc = "http" /\ \E r \in PlatformResponses(cop, Statuses) : http_response(r)

SpecFacade == InitFacade /\ [][NextFacade]_vars

\* The steps of get_token that follow its entry.
get_token_rest(t) ==
    \/ get_token_return_cached(t)
    \/ fetch_token_send(t)
    \/ fetch_token_response(t)
    \/ get_token_store(t)
    \/ get_token_return(t)

\* A client built by from_credentials or from_m2m (client.py:89-138): its
\* requests call the Auth0 provider, while time passes.
InitClient == InitWith(Configs, {900}) /\ ClientInit({"auth0"})

NextClient ==
    \/ \E c \in TransportCalls : facade_call(c)
    \/ cpc = "token" /\ get_token_rest(1) /\ UNCHANGED clientVars
    \/ request_send
    \/ cpc = "http" /\ \E r \in PlatformResponses(cop, TransportStatuses) : http_response(r)
    \/ Tick /\ UNCHANGED clientVars

SpecClient == InitClient /\ [][NextClient]_vars

\* ------------------------------------------------------------ two clients
\* The fields of one HavonaClient object and of the provider it owns:
\* HavonaClient._token_provider (client.py:80) with the Auth0 fields of
\* auth.py:65-72 or the StaticToken field of auth.py:176.
ClientObject(kind, u, p, s, c, meta, tok, tok0) ==
    [provider |-> kind, username |-> u, password |-> p, client_secret |-> s,
     cache |-> c, cacheMeta |-> meta, staticToken |-> tok, staticInit |-> tok0]

\* The object the caller is using.
InUse ==
    ClientObject(provider, username, password, client_secret, cache, cacheMeta,
                 staticToken, staticInit)

\* Variant of instance_cache in which _cache is one slot for all providers.
class_level_cache(o) == cache

\* self._cache is set per instance in Auth0.__init__ (auth.py:72): the slot
\* of object o is the one o carries.
instance_cache(o) == o.cache

\* The caller turns to the other client object; the one it leaves keeps
\* its fields as they are.
switch_client ==
    /\ cpc \in {"idle", "done"}
    /\ pc[1] \in {"idle", "done"}
    /\ cur' = 3 - cur
    /\ other' = InUse
    /\ provider' = other.provider
    /\ username' = other.username
    /\ password' = other.password
    /\ client_secret' = other.client_secret
    /\ cache' = instance_cache(other)
    /\ cacheMeta' = other.cacheMeta
    /\ staticToken' = other.staticToken
    /\ staticInit' = other.staticInit
    /\ UNCHANGED <<clockVars, netReqs, pc, force, sent, data, result, staticRet,
                   staticCalls, chkCache, chkMeta, chkTime, nfetch, nreq, resp,
                   cpc, cop, creq, cresp, cresult, platReqs, clog, prev>>

\* Client 1 built by from_credentials; client 2 built by from_m2m or by
\* from_token with another token (client.py:89-153).
InitTwoClients ==
    /\ InitWith({[u |-> "trader", p |-> "pw", s |-> PyNone]}, {900})
    /\ CallerInit({"auth0"})
    /\ cur = 1
    /\ other \in {ClientObject("auth0", PyNone, PyNone, "secret", NoneVal, NoneVal,
                                900, 900),
                   ClientObject("static", PyNone, PyNone, PyNone, NoneVal, NoneVal,
                                901, 901)}

NextTwoClients ==
    \/ facade_call([name |-> "agents.status"])
    \/ cpc = "token" /\ get_token_rest(1) /\ UNCHANGED clientVars
    \/ request_send
    \/ cpc = "http" /\ \E r \in PlatformResponses(cop, TransportStatuses) : http_response(r)
    \/ switch_client

SpecTwoClients == InitTwoClients /\ [][NextTwoClients]_vars

\* ------------------------------------------------------------ specifications
Auth0Step(t) ==
    \/ \E f \in BOOLEAN : get_token_check(t, f)
    \/ get_token_return_cached(t)
    \/ fetch_token_send(t)
    \/ fetch_token_response(t)
    \/ get_token_store(t)
    \/ get_token_return(t)

\* One caller at a time (the SDK's single logical flow per client).
Next ==
    \/ Auth0Step(1) /\ UNCHANGED clientVars
    \/ Tick /\ UNCHANGED clientVars

Spec == Init /\ [][Next]_vars

\* Several threads share the provider; the calls overlap within one instant
\* of the clock (an entry with expires_in 60 is expired as soon as stored).
NextConc ==
    \/ \E t \in Threads : Auth0Step(t) /\ UNCHANGED clientVars

SpecConc == Init /\ [][NextConc]_vars

\* The StaticToken provider, called at any time.
NextStatic ==
    \/ \E f \in BOOLEAN : static_get_token(f) /\ UNCHANGED clientVars
    \/ Tick /\ UNCHANGED clientVars

SpecStatic == InitStatic /\ [][NextStatic]_vars

\* ------------------------------------------------------------------ claims
\* The TTL a cache entry was built with: the declared expires_in, or one day
\* when the response declared none.
TTLOf(meta) == IF meta.declared = -1 THEN 86400 ELSE meta.declared

\* The instant from which an entry built at meta.obtained_at counts as expired.
SkewedExpiry(meta) == meta.obtained_at + TTLOf(meta) - 60

\* C1: after a successful fetch at T0 with TTL t, a get_token(force_refresh=
\* False) call made in [T0, T0+t-60) returns the cached token and issues no
\* identity request; a call made at or after T0+t-60 issues exactly one.
C1_CachedUntilSkewedExpiry ==
    \A t \in Threads :
        (pc[t] # "idle" /\ ~force[t] /\ chkCache[t] # NoneVal) =>
            /\ chkMeta[t].obtained_at <= chkTime[t]
            /\ chkTime[t] < SkewedExpiry(chkMeta[t]) =>
                  /\ nreq[t] = 0
                  /\ nfetch[t] = 0
                  /\ pc[t] \in {"hit", "done"}
                  /\ pc[t] = "done" => result[t] = Return(chkCache[t].access_token)
            /\ chkTime[t] >= SkewedExpiry(chkMeta[t]) =>
                  /\ nreq[t] <= 1
                  /\ pc[t] \in {"post", "fetched", "stored", "done"} => nreq[t] = 1

\* C1 witness: a call made exactly at T0+t-60 has finished with a new token
\* after one identity request.
C1_Witness ==
    /\ pc[1] = "done" /\ ~force[1] /\ chkCache[1] # NoneVal
    /\ chkTime[1] = SkewedExpiry(chkMeta[1])
    /\ chkTime[1] > chkMeta[1].obtained_at
    /\ nreq[1] = 1
    /\ IsReturn(result[1])

\* C2: a cache entry obtained at T0 with TTL t is valid exactly while
\* now < T0 + t - 60.
C2_ValidExactlyBeforeSkewedExpiry ==
    cache # NoneVal =>
        (is_valid(cache, now) <=> now < SkewedExpiry(cacheMeta))

\* C2 witness: an entry with TTL 120 is invalid at exactly 60 s after the fetch.
C2_Witness ==
    /\ cache # NoneVal
    /\ cacheMeta.declared = 120
    /\ now = cacheMeta.obtained_at + 60
    /\ ~is_valid(cache, now)

\* C9: a response without expires_in gives the entry TTL 86400 (valid until
\* 86340 s after the fetch); a declared expires_in is the TTL used.
C9_DefaultTTL ==
    cache # NoneVal =>
        /\ cacheMeta.declared = -1 =>
              /\ cache.expires_at = cacheMeta.obtained_at + 86340
              /\ is_valid(cache, now) <=> now < cacheMeta.obtained_at + 86340
        /\ cacheMeta.declared # -1 =>
              /\ cache.expires_at = cacheMeta.obtained_at + cacheMeta.declared - 60

\* C9 witness: an entry built from a response without expires_in, looked at
\* 86340 s after the fetch, has just stopped being valid.
C9_Witness ==
    /\ cache # NoneVal
    /\ cacheMeta.declared = -1
    /\ now = cacheMeta.obtained_at + 86340
    /\ ~is_valid(cache, now)

\* C3 as stated: every get_token(force_refresh=True) call performs exactly
\* one identity-endpoint fetch, whatever the cache holds.
C3_ForcedAlwaysOneRequest ==
    \A t \in Threads : (force[t] /\ pc[t] = "done") => nreq[t] = 1

\* C3, amended: get_token(force_refresh=True) enters _fetch_token exactly once
\* whether the cache is empty, valid or expired; with usable credentials that
\* is exactly one identity request, and on success the call returns the newly
\* fetched token, which replaces the previous entry; without usable
\* credentials no request is issued and the call raises AuthError.
C3_ForcedRefresh ==
    \A t \in Threads :
        (force[t] /\ pc[t] # "idle") =>
            /\ pc[t] # "hit"
            /\ pc[t] \in {"post", "fetched", "stored", "done"} =>
                  /\ nfetch[t] = 1
                  /\ Payload # NoneVal => nreq[t] = 1
                  /\ Payload = NoneVal => nreq[t] = 0
            /\ (pc[t] = "done" /\ Payload = NoneVal) =>
                  (IsRaise(result[t]) /\ result[t].raise = "AuthError")
            /\ (pc[t] = "done" /\ IsReturn(result[t])) =>
                  /\ result[t].ret = sent[t].n
                  /\ cache # NoneVal
                  /\ cache.access_token = sent[t].n
                  /\ cache # chkCache[t]

\* C3 witness: a forced refresh over a still-valid entry has returned the
\* newly fetched token.
C3_Witness ==
    /\ force[1] /\ pc[1] = "done" /\ IsReturn(result[1])
    /\ chkCache[1] # NoneVal
    /\ chkTime[1] < SkewedExpiry(chkMeta[1])
    /\ result[1].ret # chkCache[1].access_token

\* Whether the identity endpoint's answer r is one of the failures of the
\* contract: no answer, a status outside 200-299, or no access_token in it.
EndpointFailure(r) ==
    \/ r.kind = "exception"
    \/ /\ r.kind = "response"
       /\ \/ ~(200 <= r.status /\ r.status <= 299)
          \/ r.body.kind # "object"
          \/ "access_token" \notin DOMAIN r.body.obj

\* C6 as stated: when the identity endpoint fails (network error, non-2xx,
\* missing access_token) get_token raises AuthError and the cache is what it
\* was before the call.
C6_FailedFetchKeepsCache ==
    \A t \in Threads :
        (pc[t] = "done" /\ resp[t] # NoneVal /\ EndpointFailure(resp[t])) =>
            /\ IsRaise(result[t]) /\ result[t].raise = "AuthError"
            /\ cache = chkCache[t]

\* C7: a get_token call whose _fetch_token raises makes that one attempt
\* only (at most one identity request) and raises the very same error; it
\* returns no token, cached or otherwise, and a call raises only what its
\* _fetch_token raised.
C7_FetchErrorPropagates ==
    \A t \in Threads :
        /\ (pc[t] = "done" /\ IsRaise(data[t])) =>
              /\ result[t] = data[t]
              /\ nfetch[t] = 1
              /\ nreq[t] <= 1
        /\ (pc[t] = "done" /\ IsRaise(result[t])) => result[t] = data[t]
        /\ (pc[t] = "fetched" /\ IsRaise(data[t])) => (nfetch[t] = 1 /\ nreq[t] <= 1)

\* C7 witness: an AuthError of a failed refresh has reached the caller while
\* a still-valid token sits in the cache.
C7_Witness ==
    /\ pc[1] = "done" /\ IsRaise(result[1]) /\ result[1].raise = "AuthError"
    /\ nreq[1] = 1
    /\ cache # NoneVal /\ is_valid(cache, now)

\* C8: StaticToken.get_token returns the string given at construction and
\* does no network I/O, at any time, any number of times, for both values of
\* force_refresh; the stored token never changes.
C8_StaticTokenFixed ==
    /\ staticToken = staticInit
    /\ netReqs = 0
    /\ staticRet # NoneVal => staticRet.ret = staticInit

\* C8 witness: a forced call after earlier calls, at a later time.
C8_Witness ==
    /\ staticCalls >= 2
    /\ now > 0
    /\ staticRet # NoneVal /\ staticRet.force_refresh

\* C10 as stated: _fetch_token ends in AuthError in every failure case
\* (unreachable or timed out, non-2xx status, payload lacking access_token)
\* and returns the token data in every other case.
C10_FetchFailsOnlyWithAuthError ==
    \A t \in Threads :
        (pc[t] \in {"fetched", "stored", "done"} /\ resp[t] # NoneVal) =>
            IF EndpointFailure(resp[t])
            THEN IsRaise(data[t]) /\ data[t].raise = "AuthError"
            ELSE data[t] = Return(resp[t].body.obj)

\* Calls t1 and t2 both met the same invalid (empty or expired) cache.
SameWindow(t1, t2) ==
    /\ t1 # t2
    /\ ~force[t1] /\ ~force[t2]
    /\ chkCache[t1] = chkCache[t2]
    /\ chkCache[t1] = NoneVal \/ ~is_valid(chkCache[t1], chkTime[t1])
    /\ chkCache[t2] = NoneVal \/ ~is_valid(chkCache[t2], chkTime[t2])

\* C4 as stated: threads calling get_token while the cache is empty or
\* expired cause one identity fetch for that window and all get the same
\* token.
C4_SingleFlight ==
    \A t1, t2 \in Threads :
        (SameWindow(t1, t2) /\ pc[t1] = "done" /\ pc[t2] = "done"
            /\ IsReturn(result[t1]) /\ IsReturn(result[t2])) =>
            /\ ~(nreq[t1] = 1 /\ nreq[t2] = 1)
            /\ result[t1] = result[t2]

\* C5 as stated: check-then-fetch-then-store is mutually exclusive, so the
\* token of an older fetch never replaces the token of a newer one.
C5_NoStaleOverwrite ==
    [][(cache # NoneVal /\ cache' # cache) =>
            cache'.access_token > cache.access_token]_vars
C12_UnauthorizedNoRetry ==
    /\ (cpc = "done" /\ cresp # NoneVal /\ cresp.kind = "response"
            /\ cresp.status = 401) =>
          /\ cresult = RaiseHttp("AuthError", "Authentication failed", 401,
                                 text_slice(cresp.text, 500))
          /\ clog.http = 1
          /\ platReqs = clog.plat_before + 1
          /\ clog.get_token = 1
          /\ clog.forces = {FALSE}
          /\ force[1] = FALSE
          /\ netReqs = clog.sendNetReqs
          /\ cache = clog.sendCache
    /\ (prev # NoneVal /\ cpc \in {"token", "http"}) =>
          /\ chkCache[1] = prev.cache
          /\ force[1] = FALSE
          /\ (cpc = "http" /\ chkCache[1] # NoneVal
                 /\ is_valid(chkCache[1], chkTime[1])) =>
                /\ creq.headers["Authorization"].token = prev.token
                /\ nreq[1] = 0

\* C12 witness: the request after a 401 is in flight with the token the
\* rejected request carried, taken from the cache without a fetch.
C12_Witness ==
    /\ prev # NoneVal
    /\ cpc = "http"
    /\ chkCache[1] # NoneVal
    /\ is_valid(chkCache[1], chkTime[1])
    /\ creq.headers["Authorization"].token = prev.token
    /\ nreq[1] = 0
    /\ platReqs = 2

\* The SDK's typed errors (exceptions.py).
TypedErrors == {"HavonaError", "AuthError", "BlockchainError", "ValidationError",
                "NotFoundError", "GraphQLError"}

\* C13: for every platform response whose status is outside 200-299,
\* _request raises a typed SDK error and does not return the response; it
\* returns the response for a status inside 200-299.
C13_Non2xxAlwaysRaises ==
    (cpc = "done" /\ cresp # NoneVal /\ cresp.kind = "response") =>
        IF 200 <= cresp.status /\ cresp.status <= 299
        THEN clog.transport = "returned"
        ELSE clog.transport \in TypedErrors

\* C14: _raise_for_status maps 401 and 403 to AuthError, 404 to
\* NotFoundError, 400 and 422 to ValidationError and every other error
\* status to the base HavonaError; the error carries the status code and
\* the first 500 characters of the body, the whole body when it is shorter.
C14_StatusMapping ==
    (cpc = "done" /\ cresp # NoneVal /\ cresp.kind = "response"
        /\ clog.transport # "returned") =>
        /\ cresp.status \in {401, 403} => cresult.raise = "AuthError"
        /\ cresp.status = 404 => cresult.raise = "NotFoundError"
        /\ cresp.status \in {400, 422} => cresult.raise = "ValidationError"
        /\ cresp.status \notin {400, 401, 403, 404, 422} =>
              cresult.raise = "HavonaError"
        /\ cresult.status = cresp.status
        /\ cresult.response_body <= 500
        /\ cresult.response_body =
              (IF cresp.text <= 500 THEN cresp.text ELSE 500)

\* C14 witness: a 409 with a 501-character body was raised as the base
\* HavonaError with 500 characters of it.
C14_Witness ==
    /\ cpc = "done" /\ cresp # NoneVal /\ cresp.kind = "response"
    /\ cresp.status = 409
    /\ cresp.text = 501
    /\ cresult.raise = "HavonaError"
    /\ cresult.response_body = 500

\* graphql has finished on an HTTP 200 response that carries a JSON object.
GraphQLAnswered ==
    /\ cpc = "done"
    /\ cop.name = "graphql"
    /\ cresp # NoneVal
    /\ cresp.kind = "response"
    /\ cresp.status = 200
    /\ cresp.body.kind = "object"

\* The envelope has a non-empty errors array.
HasErrors(envelope) ==
    /\ "errors" \in DOMAIN envelope
    /\ envelope["errors"].tag = "list"
    /\ Len(envelope["errors"].items) > 0

\* C15: on an HTTP 200 envelope with a non-empty errors array graphql
\* raises GraphQLError carrying that array, data present or not; with errors
\* absent, null or empty it raises nothing and returns the data portion,
\* the empty dict when data is absent.
C15_GraphQLErrors ==
    GraphQLAnswered =>
        LET envelope == cresp.body.obj
        IN IF HasErrors(envelope)
           THEN /\ IsRaise(cresult)
                /\ cresult.raise = "GraphQLError"
                /\ cresult.errors = envelope["errors"]
           ELSE /\ IsReturn(cresult)
                /\ "data" \in DOMAIN envelope => cresult.ret = envelope["data"]
                /\ "data" \notin DOMAIN envelope => cresult.ret = JObj(EmptyDict)

\* C15 witness: an envelope with both data and two errors ended in
\* GraphQLError.
C15_Witness ==
    /\ GraphQLAnswered
    /\ "data" \in DOMAIN cresp.body.obj
    /\ HasErrors(cresp.body.obj)
    /\ Len(cresp.body.obj["errors"].items) = 2
    /\ IsRaise(cresult)
    /\ cresult.raise = "GraphQLError"

\* C16: every platform request carries Authorization: Bearer <token> with
\* the token get_token returned for that request, and carries
\* Content-Type: application/json exactly when files is None.
C16_RequestHeaders ==
    (cpc \in {"http", "done"} /\ creq # NoneVal) =>
        /\ "Authorization" \in DOMAIN creq.headers
        /\ creq.headers["Authorization"] =
              [scheme |-> "Bearer", token |-> token_outcome.ret]
        /\ ("Content-Type" \in DOMAIN creq.headers) <=> (creq.files = NoneVal)
        /\ "Content-Type" \in DOMAIN creq.headers =>
              creq.headers["Content-Type"] = "application/json"

\* C16 witness: an upload is in flight without Content-Type, carrying the
\* token of the second identity fetch.
C16_Witness ==
    /\ cpc = "http"
    /\ creq.files # NoneVal
    /\ "Content-Type" \notin DOMAIN creq.headers
    /\ creq.headers["Authorization"].token = 2
    /\ result[1] = Return(2)

\* write has built and sent its request.
WriteSent == cpc \in {"http", "done"} /\ cop.name = "write" /\ creq # NoneVal

\* C17 as stated: the body write posts always has type equal to type_name,
\* together with exactly the payload's fields, and has id exactly when
\* the payload has.
C17_TypeIsAlwaysTypeName ==
    WriteSent =>
        /\ creq.json["type"] = cop.type_name
        /\ DOMAIN creq.json = DOMAIN cop.payload \cup {"type"}
        /\ \A k \in DOMAIN cop.payload : creq.json[k] = cop.payload[k]
        /\ ("id" \in DOMAIN creq.json) <=> ("id" \in DOMAIN cop.payload)

\* C17: the body write posts has the payload's fields with the payload's
\* values and a type key; type is type_name when the payload has no type
\* key of its own and the payload's type otherwise; it has id exactly when
\* the payload has.
C17_WriteBody ==
    WriteSent =>
        /\ DOMAIN creq.json = DOMAIN cop.payload \cup {"type"}
        /\ \A k \in DOMAIN cop.payload : creq.json[k] = cop.payload[k]
        /\ "type" \notin DOMAIN cop.payload => creq.json["type"] = cop.type_name
        /\ ("id" \in DOMAIN creq.json) <=> ("id" \in DOMAIN cop.payload)

\* C17 witness: a payload with a type key of its own went out with that
\* type, not with type_name.
C17_Witness ==
    /\ WriteSent
    /\ "type" \in DOMAIN cop.payload
    /\ creq.json["type"] = cop.payload["type"]
    /\ creq.json["type"] # cop.type_name

\* trades.get has finished on a GraphQL read that succeeded: an HTTP 200
\* envelope without errors.
TradeReadSucceeded ==
    /\ cpc = "done"
    /\ cop.name = "trades.get"
    /\ cresp # NoneVal
    /\ cresp.kind = "response"
    /\ cresp.status = 200
    /\ cresp.body.kind = "object"
    /\ ~HasErrors(cresp.body.obj)

\* The data portion of the envelope answered to trades.get.
TradeReadData ==
    IF "data" \in DOMAIN cresp.body.obj
    THEN cresp.body.obj["data"].items
    ELSE EmptyDict

\* getTradeContract is null or absent in it.
TradeMissing ==
    \/ "getTradeContract" \notin DOMAIN TradeReadData
    \/ TradeReadData["getTradeContract"].tag = "None"

ClientState(c) == IF c = cur THEN InUse ELSE other

\* C19: whatever the caller does through the client it is using, a
\* get_token call or a request, ending well or not, the other client's
\* provider, cached token and expiry stay as they are; turning to the
\* other client changes neither client's fields.
C19_ClientsIsolated ==
    [][/\ \A c \in {1, 2} : c # cur => ClientState(c)' = ClientState(c)
       /\ cur' # cur => \A c \in {1, 2} : ClientState(c)' = ClientState(c)]_vars

\* C19 witness: both clients hold a cached token of their own, and the
\* caller is back on client 1.
C19_Witness ==
    /\ cur = 1
    /\ cache # NoneVal
    /\ other.provider = "auth0"
    /\ other.cache # NoneVal
    /\ other.cache.access_token # cache.access_token
    /\ cpc = "done"
    /\ IsRaise(cresult)

\* C20: a step in which time passes issues no identity request, leaves the
\* cache slot and every get_token call where they are; an identity request
\* is issued only by a running get_token call (its _fetch_token), and the
\* slot, expired or not, changes only when a get_token call stores a new
\* entry.
C20_NoBackgroundRefresh ==
    [][/\ now' # now =>
             /\ netReqs' = netReqs
             /\ cache' = cache
             /\ pc' = pc
       /\ netReqs' # netReqs =>
             \E t \in Threads : pc[t] = "fetch" /\ pc'[t] = "post"
       /\ cache' # cache =>
             \E t \in Threads : pc[t] = "fetched" /\ pc'[t] = "stored"]_vars

\* C20 witness: the clock has passed the expiry of the cached entry, the
\* entry is still in the slot and the one identity request is the one
\* that fetched it.
C20_Witness ==
    /\ cache # NoneVal
    /\ now > cache.expires_at
    /\ netReqs = 1
    /\ pc[1] = "done"
    /\ result[1] = Return(cache.access_token)

\* Seconds of the declared TTL an entry built as meta says has left at t.
Remaining(meta, t) == meta.obtained_at + TTLOf(meta) - t

\* C21 as stated: whenever get_token returns a token, more than 60 s of
\* the token's declared TTL remain at that moment.
C21_ReturnedTokenNotNearExpiry ==
    [][\A t \in Threads :
          (pc[t] \in {"hit", "stored"} /\ pc'[t] = "done") =>
              Remaining(cacheMeta, now) > 60]_vars

\* C21: a token get_token returns from the cache had more than 60 s of
\* its declared TTL left when line 110 found it valid; a token it has just
\* fetched is the one it stored, returned whatever TTL was declared.
C21_CachedTokenNotNearExpiry ==
    \A t \in Threads :
        (pc[t] = "done" /\ IsReturn(result[t])) =>
            /\ nfetch[t] = 0 =>
                  /\ result[t] = Return(chkCache[t].access_token)
                  /\ Remaining(chkMeta[t], chkTime[t]) > 60
            /\ nfetch[t] = 1 =>
                  /\ result[t] = Return(cache.access_token)
                  /\ result[t].ret = data[t].ret.access_token

\* C21 witness: a token came back from the cache with exactly 61 s left
\* at the check.
C21_Witness ==
    /\ pc[1] = "done"
    /\ IsReturn(result[1])
    /\ nfetch[1] = 0
    /\ Remaining(chkMeta[1], chkTime[1]) = 61

\* C22: the slot is empty until the first successful fetch and never empty
\* again; it changes only when a get_token call stores the entry of its
\* fetch, a new entry stamped with the clock at that moment; the token a
\* successful get_token returns is the token then in the slot.
C22_SlotLifecycle ==
    [][/\ cache # NoneVal => cache' # NoneVal
       /\ cache' # cache =>
             \E t \in Threads :
                /\ pc[t] = "fetched" /\ pc'[t] = "stored"
                /\ IsReturn(data[t])
       /\ \A t \in Threads :
             (pc[t] = "fetched" /\ pc'[t] = "stored") =>
                /\ cache' # cache
                /\ cache'.access_token = data[t].ret.access_token
                /\ cache'.expires_at =
                      now + dict_get(data[t].ret, "expires_in", 86400) - 60
       /\ \A t \in Threads :
             (pc[t] # "done" /\ pc'[t] = "done" /\ IsReturn(result'[t])) =>
                /\ cache' # NoneVal
                /\ result'[t].ret = cache'.access_token]_vars

\* C22 witness: a second successful fetch, made after the clock moved, has
\* replaced the first entry and its token was returned.
C22_Witness ==
    /\ pc[1] = "done"
    /\ nfetch[1] = 1
    /\ chkCache[1] # NoneVal
    /\ cache # chkCache[1]
    /\ cacheMeta.obtained_at > 0
    /\ result[1] = Return(cache.access_token)

\* The extraction operations.
Extractions == {"documents.extract", "documents.extract_trade", "etrs.extract"}

UsableCredentials ==
    \/ username \notin {PyNone, ""} /\ password \notin {PyNone, ""}
    \/ client_secret \notin {PyNone, ""}

\* C24: the body _fetch_token posts is the password grant (grant_type,
\* client_id, audience, username, password, scope) for a provider built
\* by from_password and the client-credentials grant (grant_type,
\* client_id, client_secret, audience) for one built by
\* from_client_credentials; without usable credentials _fetch_token raises
\* AuthError, posts nothing and the cache stays as it was.
C24_GrantBodies ==
    \A t \in Threads :
        /\ sent[t] # NoneVal =>
              /\ UsableCredentials
              /\ username # PyNone =>
                    sent[t].body =
                        [grant_type |-> "password", client_id |-> "client-id",
                         audience |-> "https://api.example.com",
                         username |-> username, password |-> password,
                         scope |-> "openid profile email"]
              /\ username = PyNone =>
                    sent[t].body =
                        [grant_type |-> "client_credentials",
                         client_id |-> "client-id",
                         client_secret |-> client_secret,
                         audience |-> "https://api.example.com"]
        /\ (~UsableCredentials /\ pc[t] \in {"fetched", "done"}) =>
              /\ nfetch[t] = 1
              /\ nreq[t] = 0
              /\ netReqs = 0
              /\ sent[t] = NoneVal
              /\ cache = chkCache[t]
              /\ data[t] = Raise("AuthError", "no_credentials", 0)
              /\ pc[t] = "done" => result[t] = data[t]

\* C24 witness: a from_client_credentials provider has its grant in flight.
C24_Witness ==
    /\ pc[1] = "post"
    /\ client_secret = "secret"
    /\ sent[1].body.grant_type = "client_credentials"
    /\ sent[1].body.client_secret = "secret"

\* C25: when the get_token call of a facade operation raises AuthError,
\* the operation ends with that same AuthError and no platform request
\* was issued for it.
C25_AuthErrorStopsRequest ==
    (/\ cpc = "done"
     /\ clog.get_token = 1
     /\ IsRaise(result[1])
     /\ result[1].raise = "AuthError") =>
        /\ cresult = result[1]
        /\ clog.http = 0
        /\ creq = NoneVal
        /\ cresp = NoneVal
        /\ platReqs = clog.plat_before

\* C25 witness: after an earlier request went out, a later operation ends
\* with the AuthError of its get_token call.
C25_Witness ==
    /\ cpc = "done"
    /\ clog.get_token = 1
    /\ IsRaise(result[1])
    /\ result[1].raise = "AuthError"
    /\ cresult = result[1]
    /\ platReqs = 1
    /\ clog.plat_before = 1

\* C26: an entry stored from a response with expires_in <= 60 is valid at
\* no instant from the fetch on, so every later get_token call, however
\* soon, enters _fetch_token and never returns from the cache; an entry
\* with a longer TTL serves an unforced call made at the fetch instant.
C26_ShortTTLNeverCached ==
    /\ (cache # NoneVal /\ TTLOf(cacheMeta) <= 60) =>
          /\ cache.expires_at <= cacheMeta.obtained_at
          /\ ~is_valid(cache, now)
    /\ \A t \in Threads :
          (pc[t] # "idle" /\ chkCache[t] # NoneVal) =>
              /\ TTLOf(chkMeta[t]) <= 60 =>
                    /\ pc[t] # "hit"
                    /\ pc[t] \in {"post", "fetched", "stored", "done"} =>
                          nfetch[t] = 1
                    /\ (pc[t] = "done" /\ Payload # NoneVal) => nreq[t] = 1
              /\ (TTLOf(chkMeta[t]) > 60 /\ ~force[t]
                  /\ chkTime[t] = chkMeta[t].obtained_at) =>
                    /\ pc[t] \in {"hit", "done"}
                    /\ nfetch[t] = 0

\* C26 witness: an unforced call made at the very instant an entry with
\* expires_in 60 was stored has fetched again.
C26_Witness ==
    /\ pc[1] = "done" /\ ~force[1]
    /\ chkCache[1] # NoneVal
    /\ chkMeta[1].declared = 60
    /\ chkTime[1] = chkMeta[1].obtained_at
    /\ nfetch[1] = 1 /\ nreq[1] = 1
    /\ IsReturn(result[1])
    /\ result[1].ret # chkCache[1].access_token

\* The errors _raise_for_status maps a status to (client.py:201-210).
StatusMapped == {"AuthError", "NotFoundError", "ValidationError", "HavonaError"}

\* C27: in graphql the status check comes before the envelope check: a
\* response with a status outside 200-299 ends in the status-mapped error
\* carrying that status, never in GraphQLError, whatever its body holds;
\* GraphQLError is raised only for a response with a 2xx status.
C27_StatusBeforeEnvelope ==
    (/\ cpc = "done"
     /\ cop.name = "graphql"
     /\ cresp # NoneVal
     /\ cresp.kind = "response") =>
        /\ ~(200 <= cresp.status /\ cresp.status <= 299) =>
              /\ IsRaise(cresult)
              /\ cresult.raise \in StatusMapped
              /\ cresult.status = cresp.status
        /\ (IsRaise(cresult) /\ cresult.raise = "GraphQLError") =>
              (200 <= cresp.status /\ cresp.status <= 299)

\* trades.create or trades.update has issued its request.
TradeWriteSent ==
    /\ creq # NoneVal
    /\ cop.name \in {"trades.create", "trades.update"}

\* The name a keyword argument is sent under.
SentName(k) == IF k \in DOMAIN FieldMap THEN FieldMap[k] ELSE k

\* C28: the body trades.update posts to /dynamic has id = trade_id, whatever
\* id the keyword arguments hold; the body trades.create posts has an id
\* exactly when the caller passed one, and then that one; in both, the keys
\* sent are the camelCase names of the known snake_case arguments and the
\* other arguments' own names, beside the "type" write adds, and each
\* carries the value of the last argument sent under that name.
C28_TradeWriteBody ==
    TradeWriteSent =>
        LET kw == cop.kwargs
            body == creq.json
            update == cop.name = "trades.update"
            Last(i) == \A j \in (i + 1)..Len(kw) :
                           SentName(kw[j][1]) # SentName(kw[i][1])
        IN /\ creq.method = "POST"
           /\ creq.path = <<"/dynamic">>
           /\ DOMAIN body =
                 {SentName(kw[i][1]) : i \in 1..Len(kw)} \cup {"type"}
                 \cup (IF update THEN {"id"} ELSE {})
           /\ \A i \in 1..Len(kw) :
                 /\ kw[i][1] \in DOMAIN FieldMap => kw[i][1] \notin DOMAIN body
                 /\ (Last(i) /\ ~(update /\ kw[i][1] = "id")) =>
                       body[SentName(kw[i][1])] = kw[i][2]
           /\ update => body["id"] = cop.trade_id
           /\ ~update =>
                 (("id" \in DOMAIN body) <=> (\E i \in 1..Len(kw) : kw[i][1] = "id"))

\* C28 witness: trades.update("t1", id="t7", seller_id="m1") went out with
\* id "t1" and the seller under sellerId.
C28_Witness ==
    /\ TradeWriteSent
    /\ cop.name = "trades.update"
    /\ cop.trade_id = "t1"
    /\ \E i \in 1..Len(cop.kwargs) : cop.kwargs[i] = <<"id", "t7">>
    /\ creq.json["id"] = "t1"
    /\ creq.json["sellerId"] = "m1"
    /\ "seller_id" \notin DOMAIN creq.json
====
